---- MODULE Spec2Model ----
(***************************************************************************)
(* A model of celloapi2 (src/cello_api/celloapi.py).                       *)
(*                                                                         *)
(*   SpecResult : construction of a CelloResult over an output directory   *)
(*                (CelloResult.__init__, one action per statement of it).  *)
(*   SpecReader : the relaxed-format reader _fix_input_json on a text.     *)
(*   SpecSignals: a CelloQuery's get_input_signals and set_input_signals.  *)
(*   SpecRun    : a CelloQuery's get_results.                              *)
(*                                                                         *)
(* Strings the code inspects character by character (entity keys, file    *)
(* texts) are sequences of one-character strings; strings the code splits  *)
(* on a separator (sensor names on "_", log lines on " ") are sequences of *)
(* the pieces between the separators.                                      *)
(***************************************************************************)
EXTENDS Integers, Sequences, FiniteSets, TLC

VARIABLES
    dir,            \* the output directory: file names and file contents
    pc,             \* position inside CelloResult.__init__
    self,           \* the attributes of the CelloResult under construction
    err,            \* the exception that left __init__, or NoError
    text,           \* _fix_input_json: the characters of the file
    flag,           \* _fix_input_json: final_trailing_comma
    out,            \* _fix_input_json: what the call produced
    fs,             \* CelloQuery: input directory, file name -> document
    query,          \* CelloQuery: the attributes of the object
    outdir,         \* CelloQuery: the entries of the output directory
    asked,          \* CelloQuery: input_signals of the last set_input_signals
                    \*   that returned and pointed the query at its file
    ret             \* CelloQuery: outcome of the last call

resultVars == <<dir, pc, self, err>>
readerVars == <<text, flag, out>>
queryVars == <<fs, query, outdir, asked, ret>>
vars == <<dir, pc, self, err, text, flag, out, fs, query, outdir, asked, ret>>

(***************************************************************************)
(* Bounds of the model.                                                    *)
(***************************************************************************)
MaxCols == 3        \* columns of a table row (besides the key)
MaxLogLines == 3    \* lines of the log file
MaxNodes == 2       \* entries of the netlist's "nodes" sequence
MaxTextLen == 5     \* characters of a text given to the reader
MaxRows == 3        \* rows of a sensor document
MaxArchives == 2    \* archive directories in the query's output directory

Unset == "unset"
NoError == [type |-> "none", msg |-> "", arg |-> ""]

RuntimeError(m, a) == [type |-> "RuntimeError", msg |-> m, arg |-> a]
ValueError(m) == [type |-> "ValueError", msg |-> m, arg |-> ""]
IndexError(m) == [type |-> "IndexError", msg |-> m, arg |-> ""]
KeyError(k) == [type |-> "KeyError", msg |-> "", arg |-> k]
ParserError == [type |-> "yaml.YAMLError", msg |-> "", arg |-> ""]

Ok(v) == [ok |-> TRUE, val |-> v, err |-> NoError]
Raise(e) == [ok |-> FALSE, val |-> Unset, err |-> e]

(***************************************************************************)
(* Python dictionaries keep insertion order: a dictionary is the sequence  *)
(* of its keys in insertion order and the value of each key.               *)
(***************************************************************************)
EmptyDict == [keys |-> <<>>, val |-> <<>>]

Range(s) == {s[i] : i \in 1..Len(s)}

KeySet(d) == Range(d.keys)

DictGet(d, k) == d.val[CHOOSE i \in 1..Len(d.keys) : d.keys[i] = k]

DictSet(d, k, v) ==
    IF k \in KeySet(d)
    THEN [d EXCEPT !.val = [i \in 1..Len(d.keys) |->
                               IF d.keys[i] = k THEN v ELSE d.val[i]]]
    ELSE [keys |-> Append(d.keys, k), val |-> Append(d.val, v)]

(***************************************************************************)
(* The output directory.  A file name is its stem and the suffix the glob  *)
(* patterns tell apart; the files of one suffix share their content (the   *)
(* code reads a file only when exactly one matches).                       *)
(***************************************************************************)
LogicSuffix == "_logic.csv"
ActivitySuffix == "_activity.csv"
NetlistSuffix == "_outputNetlist.json"
LogSuffix == ".log"

Suffixes == {LogicSuffix, ActivitySuffix, NetlistSuffix, LogSuffix}
FileNames == [stem : {"a", "b"}, suffix : Suffixes]

Glob(files, suffix) == {f \in files : f.suffix = suffix}

CsvSuffix(filename) == IF filename = "logic" THEN LogicSuffix ELSE ActivitySuffix

\* for row in input_activity: mapping_keys[row[0]] = row[1:]
RECURSIVE RowsToDict(_, _)
RowsToDict(rows, d) ==
    IF rows = <<>> THEN d
    ELSE RowsToDict(Tail(rows), DictSet(d, Head(rows).key, Head(rows).vals))

ParseResultCsvFirstMatch(files, content, filename) ==
    LET in_file == Glob(files, CsvSuffix(filename))
    IN  IF in_file = {}
        THEN Raise(RuntimeError("Unable to find", filename))
        ELSE Ok(RowsToDict(content, EmptyDict))

ParseResultCsv(files, content, filename) ==
    LET in_file == Glob(files, CsvSuffix(filename))
    IN  IF in_file = {}
        THEN Raise(RuntimeError("Unable to find", filename))
        ELSE IF Cardinality(in_file) - 1 # 0
        THEN Raise(RuntimeError("Found multiple results matching pattern", ""))
        ELSE Ok(RowsToDict(content, EmptyDict))

(***************************************************************************)
(* _map_symbolic_representation_to_true_name.  `netlist` is what           *)
(* _fix_input_json(file, final_trailing_comma=True) gives for the netlist  *)
(* file: kind "error" when the reader raises, else a mapping that has or   *)
(* has not a "nodes" sequence of entries with a name and a deviceName.     *)
(***************************************************************************)
\* the node loop leaving at its first match
RECURSIVE ScanNodesFirstMatch(_, _, _)
ScanNodesFirstMatch(nodes, key, mapping) ==
    IF nodes = <<>> THEN mapping
    ELSE IF key = Head(nodes).name
    THEN DictSet(mapping, key, Head(nodes).deviceName)
    ELSE ScanNodesFirstMatch(Tail(nodes), key, mapping)

\* for node in data["nodes"]: if key == node["name"]: out_mapping[key] = ...
RECURSIVE ScanNodes(_, _, _)
ScanNodes(nodes, key, mapping) ==
    IF nodes = <<>> THEN mapping
    ELSE ScanNodes(Tail(nodes), key,
                   IF key = Head(nodes).name
                   THEN DictSet(mapping, key, Head(nodes).deviceName)
                   ELSE mapping)

\* for key in repressor_keys: ...
RECURSIVE ScanKeys(_, _, _)
ScanKeys(keys, nodes, mapping) ==
    IF keys = <<>> THEN mapping
    ELSE ScanKeys(Tail(keys), nodes, ScanNodes(nodes, Head(keys), mapping))

MapSymbolicRepresentationToTrueName(files, netlist, logic_dict) ==
    LET in_file == Glob(files, NetlistSuffix)
    IN  IF in_file = {}
        THEN Raise(RuntimeError("Unable to find", "Output Netlist"))
        ELSE IF Cardinality(in_file) - 1 # 0
        THEN Raise(RuntimeError("Found multiple results matching pattern", ""))
        ELSE IF netlist.kind = "error"
        THEN Raise(ParserError)
        ELSE IF logic_dict.keys # <<>> /\ ~netlist.hasNodes
        THEN Raise(KeyError("nodes"))
        ELSE Ok(ScanKeys(logic_dict.keys, netlist.nodes, EmptyDict))

(***************************************************************************)
(* score_repressors.  Activities are numpy scalars (np.genfromtxt): a      *)
(* division by zero gives inf or nan, not an exception.  A quotient is the *)
(* fraction in lowest terms; ln is one-to-one, so a finite score is        *)
(* represented by the fraction it is the logarithm of.                     *)
(***************************************************************************)
RECURSIVE Gcd(_, _)
Gcd(a, b) == IF b = 0 THEN a ELSE Gcd(b, a % b)

Finite(n, d) == [kind |-> "finite", num |-> n \div Gcd(n, d), den |-> d \div Gcd(n, d)]
Inf == [kind |-> "inf", num |-> 1, den |-> 0]
NaN == [kind |-> "nan", num |-> 0, den |-> 0]

\* low_on / high_off on numpy scalars
Divide(a, b) ==
    IF b # 0 THEN Finite(a, b)
    ELSE IF a = 0 THEN NaN ELSE Inf

\* math.log(x)
MathLog(x) ==
    IF x.kind = "finite" /\ x.num = 0
    THEN Raise(ValueError("math domain error"))
    ELSE Ok([x EXCEPT !.kind = IF x.kind = "finite" THEN "ln" ELSE x.kind])

\* [i for idx, i in enumerate(activity_values) if truth_table[idx]] and its
\* negation: `want` is the truth value selected, idx counts from 1.
RECURSIVE Select(_, _, _, _, _)
Select(activity_values, truth_table, want, idx, acc) ==
    IF idx > Len(activity_values) THEN Ok(acc)
    ELSE IF idx > Len(truth_table)
    THEN Raise(IndexError("list index out of range"))
    ELSE Select(activity_values, truth_table, want, idx + 1,
                IF truth_table[idx] = want
                THEN Append(acc, activity_values[idx]) ELSE acc)

\* min(list) and max(list): the first element, then each later element that
\* is strictly smaller (larger) replaces it.
RECURSIVE PyMin(_, _)
PyMin(s, m) ==
    IF s = <<>> THEN m
    ELSE PyMin(Tail(s), IF Head(s) < m THEN Head(s) ELSE m)

RECURSIVE PyMax(_, _)
PyMax(s, m) ==
    IF s = <<>> THEN m
    ELSE PyMax(Tail(s), IF Head(s) > m THEN Head(s) ELSE m)

LowOnAsMax(on) == PyMax(Tail(on), Head(on))

LowOn(on) == PyMin(Tail(on), Head(on))

HighOff(off) == PyMax(Tail(off), Head(off))

\* the body of the loop over repressor_keys, for one key
ScoreOne(truth_table, activity_values) ==
    LET on == Select(activity_values, truth_table, TRUE, 1, <<>>)
        off == Select(activity_values, truth_table, FALSE, 1, <<>>)
    IN  IF ~on.ok THEN Raise(on.err)
        ELSE IF on.val = <<>>
        THEN Raise(ValueError("min() arg is an empty sequence"))
        ELSE IF off.val = <<>>
        THEN Raise(ValueError("max() arg is an empty sequence"))
        ELSE MathLog(Divide(LowOn(on.val), HighOff(off.val)))

\* list(filter(lambda x: x[0] == "$", repressor_keys))
RECURSIVE FilterRepressors(_, _)
FilterRepressors(keys, acc) ==
    IF keys = <<>> THEN Ok(acc)
    ELSE IF Head(keys) = <<>>
    THEN Raise(IndexError("string index out of range"))
    ELSE FilterRepressors(Tail(keys),
                          IF Head(keys)[1] = "$"
                          THEN Append(acc, Head(keys)) ELSE acc)

\* for r_key in repressor_keys: ... score_dict[r_key] = score
RECURSIVE ScoreLoop(_, _, _, _)
ScoreLoop(keys, logic_dict, activity_dict, score_dict) ==
    IF keys = <<>> THEN Ok(score_dict)
    ELSE LET r_key == Head(keys)
             score == ScoreOne(DictGet(logic_dict, r_key),
                               DictGet(activity_dict, r_key))
         IN  IF ~score.ok THEN Raise(score.err)
             ELSE ScoreLoop(Tail(keys), logic_dict, activity_dict,
                            DictSet(score_dict, r_key, score.val))

ScoreRepressorsUnchecked(logic_dict, activity_dict) ==
    LET repressor_keys == FilterRepressors(logic_dict.keys, <<>>)
    IN  IF ~repressor_keys.ok THEN Raise(repressor_keys.err)
        ELSE IF \E k \in Range(repressor_keys.val) : k \notin KeySet(activity_dict)
        THEN Raise(KeyError("r_key"))
        ELSE ScoreLoop(repressor_keys.val, logic_dict, activity_dict, EmptyDict)

ScoreRepressors(logic_dict, activity_dict) ==
    IF KeySet(logic_dict) # KeySet(activity_dict)
    THEN Raise(RuntimeError("Logic and Activity Output do not match", ""))
    ELSE LET repressor_keys == FilterRepressors(logic_dict.keys, <<>>)
         IN  IF ~repressor_keys.ok THEN Raise(repressor_keys.err)
             ELSE ScoreLoop(repressor_keys.val, logic_dict, activity_dict,
                            EmptyDict)

(***************************************************************************)
(* _parse_log_file.  A line is the sequence of its pieces between single   *)
(* spaces (line.split(" ")); the marker "SimulatedAnnealing - Score:" is   *)
(* in the line when three consecutive pieces end with, are, and begin with *)
(* its three words.                                                        *)
(***************************************************************************)
EndsWithSimulatedAnnealing(piece) == piece = "SimulatedAnnealing"
BeginsWithScore(piece) == piece \in {"Score:", "Score:9"}

HasMarker(line) ==
    \E i \in 1..(Len(line) - 2) :
        /\ EndsWithSimulatedAnnealing(line[i])
        /\ line[i + 1] = "-"
        /\ BeginsWithScore(line[i + 2])

\* float(piece): surrounding white space (the line's "\n") is ignored
ToFloat(piece) ==
    CASE piece = "7" -> Ok(7)
      [] piece = "9" -> Ok(9)
      [] OTHER -> Raise(ValueError("could not convert string to float"))

\* for line in input_file: if marker in line: return float(line.split(" ")[-1])
RECURSIVE ScanLogLast(_, _)
ScanLogLast(lines, found) ==
    IF lines = <<>>
    THEN IF found.ok THEN found
         ELSE Raise(RuntimeError("Unable to locate Circuit Score in log.log", ""))
    ELSE ScanLogLast(Tail(lines),
                     IF HasMarker(Head(lines))
                     THEN ToFloat(Head(lines)[Len(Head(lines))]) ELSE found)

ScanLogLastMatch(lines) == ScanLogLast(lines, Raise(NoError))

RECURSIVE ScanLog(_)
ScanLog(lines) ==
    IF lines = <<>>
    THEN Raise(RuntimeError("Unable to locate Circuit Score in log.log", ""))
    ELSE IF HasMarker(Head(lines))
    THEN ToFloat(Head(lines)[Len(Head(lines))])
    ELSE ScanLog(Tail(lines))

ParseLogFile(files, log) ==
    LET in_file == Glob(files, LogSuffix)
    IN  IF Cardinality(in_file) - 1 # 0
        THEN Raise(RuntimeError("Found multiple results matching pattern", ""))
        ELSE ScanLog(log)

(***************************************************************************)
(* CelloResult.__init__: five assignments, each a call that returns or     *)
(* raises.  An exception leaves the constructor: no object is produced.    *)
(***************************************************************************)
NewSelf ==
    [assigned |-> {}, logic_dict |-> EmptyDict, activity_dict |-> EmptyDict,
     part_names |-> EmptyDict, repressor_scores |-> EmptyDict,
     circuit_score |-> 0]

Fail(e) ==
    /\ pc' = "raised"
    /\ err' = e
    /\ UNCHANGED self

\* self.logic_dict = self._parse_result_csv(filename="logic")
LoadLogic ==
    /\ pc = "logic"
    /\ LET r == ParseResultCsv(dir.files, dir.logic, "logic")
       IN  IF r.ok
           THEN /\ self' = [self EXCEPT !.logic_dict = r.val,
                                        !.assigned = @ \cup {"logic_dict"}]
                /\ pc' = "activity"
                /\ UNCHANGED err
           ELSE Fail(r.err)
    /\ UNCHANGED <<dir, readerVars, queryVars>>

\* self.activity_dict = self._parse_result_csv(filename="activity")
LoadActivity ==
    /\ pc = "activity"
    /\ LET r == ParseResultCsv(dir.files, dir.activity, "activity")
       IN  IF r.ok
           THEN /\ self' = [self EXCEPT !.activity_dict = r.val,
                                        !.assigned = @ \cup {"activity_dict"}]
                /\ pc' = "names"
                /\ UNCHANGED err
           ELSE Fail(r.err)
    /\ UNCHANGED <<dir, readerVars, queryVars>>

\* self.part_names = self._map_symbolic_representation_to_true_name()
MapNames ==
    /\ pc = "names"
    /\ LET r == MapSymbolicRepresentationToTrueName(dir.files, dir.netlist,
                                                    self.logic_dict)
       IN  IF r.ok
           THEN /\ self' = [self EXCEPT !.part_names = r.val,
                                        !.assigned = @ \cup {"part_names"}]
                /\ pc' = "scores"
                /\ UNCHANGED err
           ELSE Fail(r.err)
    /\ UNCHANGED <<dir, readerVars, queryVars>>

\* self.repressor_scores = self.score_repressors()
Score ==
    /\ pc = "scores"
    /\ LET r == ScoreRepressors(self.logic_dict, self.activity_dict)
       IN  IF r.ok
           THEN /\ self' = [self EXCEPT !.repressor_scores = r.val,
                                        !.assigned = @ \cup {"repressor_scores"}]
                /\ pc' = "log"
                /\ UNCHANGED err
           ELSE Fail(r.err)
    /\ UNCHANGED <<dir, readerVars, queryVars>>

\* self.circuit_score = self._parse_log_file()
ParseLog ==
    /\ pc = "log"
    /\ LET r == ParseLogFile(dir.files, dir.log)
       IN  IF r.ok
           THEN /\ self' = [self EXCEPT !.circuit_score = r.val,
                                        !.assigned = @ \cup {"circuit_score"}]
                /\ pc' = "done"
                /\ UNCHANGED err
           ELSE Fail(r.err)
    /\ UNCHANGED <<dir, readerVars, queryVars>>

(***************************************************************************)
(* The output directories the construction is run on.  Each family varies  *)
(* one part of the directory and keeps the rest as the tool writes it.     *)
(***************************************************************************)
KG == <<"$", "g">>
KH == <<"$", "h">>
KI == <<"i">>
KEmpty == <<>>
AllKeys == {KG, KH, KI, KEmpty}

Levels == {0, 1, 2, 5}

SeqsUpTo(S, lo, hi) == UNION {[1..n -> S] : n \in lo..hi}

DefaultTruth(n) == [i \in 1..n |-> i % 2 = 1]
DefaultLevels(n) == [i \in 1..n |-> IF i % 2 = 1 THEN 2 ELSE 1]

OneOfEach == {[stem |-> "a", suffix |-> x] : x \in Suffixes}

SA == "SimulatedAnnealing"
LogLines ==
    { <<"INFO", "7">>,
      <<SA, "-", "Score:", "7">>,
      <<"INFO", SA, "-", "Score:", "9">>,
      <<SA, "-", "Score:9">>,
      <<SA, "-", "Score:", "7", "">>,
      <<"Score:", "9">> }

NodeSet == [name : {KG, KH, KI}, deviceName : {"P1", "P2"}]

DefaultNetlist ==
    [kind |-> "doc", hasNodes |-> TRUE,
     nodes |-> << [name |-> KG, deviceName |-> "P1"],
                  [name |-> KI, deviceName |-> "P2"] >>]
Netlists ==
    { DefaultNetlist,
      [kind |-> "error", hasNodes |-> FALSE, nodes |-> <<>>],
      [kind |-> "doc", hasNodes |-> FALSE, nodes |-> <<>>] }

DefaultDir ==
    [files |-> OneOfEach,
     logic |-> << [key |-> KG, vals |-> DefaultTruth(2)],
                  [key |-> KI, vals |-> DefaultTruth(2)] >>,
     activity |-> << [key |-> KG, vals |-> DefaultLevels(2)],
                     [key |-> KI, vals |-> DefaultLevels(2)] >>,
     netlist |-> DefaultNetlist,
     log |-> << <<SA, "-", "Score:", "7">> >>]

\* any set of files, the contents as the tool writes them
FileDirs == {[DefaultDir EXCEPT !.files = f] : f \in SUBSET FileNames}

\* any two keys in each table, any netlist
KeyDirs ==
    {[DefaultDir EXCEPT
        !.logic = [i \in 1..2 |-> [key |-> lk[i], vals |-> DefaultTruth(2)]],
        !.activity = [i \in 1..2 |-> [key |-> ak[i], vals |-> DefaultLevels(2)]],
        !.netlist = n] :
     lk \in [1..2 -> AllKeys], ak \in [1..2 -> AllKeys], n \in Netlists}

\* any truth row and any activity row for the repressor; the rows of one
\* file have one length (np.genfromtxt accepts nothing else)
ValueDirs ==
    {[DefaultDir EXCEPT
        !.logic = << [key |-> KG, vals |-> t],
                     [key |-> KI, vals |-> DefaultTruth(Len(t))] >>,
        !.activity = << [key |-> KG, vals |-> a],
                        [key |-> KI, vals |-> DefaultLevels(Len(a))] >>] :
     t \in SeqsUpTo(BOOLEAN, 1, MaxCols), a \in SeqsUpTo(Levels, 1, MaxCols)}

\* any log
LogDirs == {[DefaultDir EXCEPT !.log = l] : l \in SeqsUpTo(LogLines, 0, MaxLogLines)}

\* any "nodes" sequence
NodeDirs ==
    {[DefaultDir EXCEPT !.netlist.nodes = n] : n \in SeqsUpTo(NodeSet, 0, MaxNodes)}

Dirs == FileDirs \cup KeyDirs \cup ValueDirs \cup LogDirs \cup NodeDirs

ReaderIdle == text = <<>> /\ flag = FALSE /\ out = [state |-> "off", data |-> <<>>]
QueryIdle ==
    /\ fs = <<>>
    /\ query = <<>>
    /\ outdir = <<>>
    /\ asked = <<>>
    /\ ret = <<>>

InitResult ==
    /\ dir \in Dirs
    /\ pc = "logic"
    /\ self = NewSelf
    /\ err = NoError
    /\ ReaderIdle
    /\ QueryIdle

NextResult == LoadLogic \/ LoadActivity \/ MapNames \/ Score \/ ParseLog

SpecResult == InitResult /\ [][NextResult]_vars

(***************************************************************************)
(* The claims about the construction of a CelloResult.                     *)
(***************************************************************************)
Assigned(name) == name \in self.assigned
Count(suffix) == Cardinality(Glob(dir.files, suffix))
ExactlyOneOfEach == \A x \in Suffixes : Count(x) = 1

MissingFile(name) == RuntimeError("Unable to find", name)
AmbiguousFile == RuntimeError("Found multiple results matching pattern", "")
InconsistentData == RuntimeError("Logic and Activity Output do not match", "")
ScoreNotFound == RuntimeError("Unable to locate Circuit Score in log.log", "")

\* the step that raised: the first attribute that was not assigned
RaisedIn(name, before) ==
    /\ pc = "raised"
    /\ ~Assigned(name)
    /\ before \subseteq self.assigned

IsRepressor(k) == k # <<>> /\ k[1] = "$"
OnPositions(k) ==
    {i \in 1..Len(DictGet(self.activity_dict, k)) : DictGet(self.logic_dict, k)[i]}
OffPositions(k) ==
    {i \in 1..Len(DictGet(self.activity_dict, k)) : ~DictGet(self.logic_dict, k)[i]}
Level(k, i) == DictGet(self.activity_dict, k)[i]

\* C2: when score_repressors returns, the scored keys are exactly the keys
\* of logic_dict that begin with "$", and the score of each is
\* ln(low_on / high_off): low_on is an activity at a true position that no
\* activity at a true position is below, high_off an activity at a false
\* position that no activity at a false position is above (the quotient is
\* defined when high_off is not zero).
ClaimC2_ScoreIsLnLowOnOverHighOff ==
    Assigned("repressor_scores") =>
        /\ KeySet(self.repressor_scores)
             = {k \in KeySet(self.logic_dict) : IsRepressor(k)}
        /\ \A k \in KeySet(self.repressor_scores) :
             \E lo \in OnPositions(k), hi \in OffPositions(k) :
                /\ \A i \in OnPositions(k) : Level(k, lo) <= Level(k, i)
                /\ \A i \in OffPositions(k) : Level(k, hi) >= Level(k, i)
                /\ Level(k, hi) # 0 =>
                     LET score == DictGet(self.repressor_scores, k)
                     IN  /\ score.kind = "ln"
                         /\ score.num * Level(k, hi) = score.den * Level(k, lo)

WitnessC2_TwoOnValues ==
    /\ Assigned("repressor_scores")
    /\ KG \in KeySet(self.repressor_scores)
    /\ DictGet(self.logic_dict, KG) = <<TRUE, FALSE, TRUE>>
    /\ DictGet(self.activity_dict, KG) = <<5, 1, 2>>
    /\ DictGet(self.repressor_scores, KG) = [kind |-> "ln", num |-> 2, den |-> 1]

\* a repressor key whose on subset or off subset is empty, or whose
\* high_off is zero
Degenerate(k) ==
    /\ IsRepressor(k)
    /\ Len(DictGet(self.logic_dict, k)) >= Len(DictGet(self.activity_dict, k))
    /\ \/ OnPositions(k) = {}
       \/ OffPositions(k) = {}
       \/ \A i \in OffPositions(k) : Level(k, i) = 0

ScoringRan ==
    /\ Assigned("part_names")
    /\ pc # "scores"
    /\ KeySet(self.logic_dict) = KeySet(self.activity_dict)
    /\ KEmpty \notin KeySet(self.logic_dict)

\* C3: a repressor key with no true entry, no false entry or a zero
\* high_off makes scoring report a score-computation error for that key: no
\* score value is produced for the key and no other exception is raised.
ClaimC3_DegenerateKeyIsScoreComputationError ==
    \A k \in KeySet(self.logic_dict) :
        (ScoringRan /\ Degenerate(k)) =>
            /\ ~Assigned("repressor_scores")
            /\ pc = "raised"
            /\ err.type = "ScoreComputationError"

FirstMarker(i) ==
    /\ i \in 1..Len(dir.log)
    /\ HasMarker(dir.log[i])
    /\ \A j \in 1..(i - 1) : ~HasMarker(dir.log[j])
LastPiece(i) == dir.log[i][Len(dir.log[i])]

LogScanned ==
    /\ Count(LogSuffix) = 1
    /\ Assigned("repressor_scores")
    /\ pc # "log"

\* C7: with one log file, the extractor returns the number of the final
\* piece of the first line that holds the marker, whatever later lines
\* hold; with no such line it fails with the score-not-found error.
ClaimC7_FirstMarkerLine ==
    LogScanned =>
        /\ \A i \in 1..Len(dir.log) :
             FirstMarker(i) =>
                /\ LastPiece(i) = "7" => (pc = "done" /\ self.circuit_score = 7)
                /\ LastPiece(i) = "9" => (pc = "done" /\ self.circuit_score = 9)
                /\ LastPiece(i) \notin {"7", "9"} => pc = "raised"
        /\ (\A i \in 1..Len(dir.log) : ~HasMarker(dir.log[i])) =>
             (pc = "raised" /\ err = ScoreNotFound)

WitnessC7_TwoMarkerLines ==
    /\ pc = "done"
    /\ Len(dir.log) >= 2
    /\ FirstMarker(1)
    /\ HasMarker(dir.log[2])
    /\ LastPiece(1) = "7"
    /\ LastPiece(2) = "9"
    /\ self.circuit_score = 7

\* C8: the tabular loader fails with the missing-file error naming the file
\* when nothing matches, with the other, ambiguous-file error when several
\* files match, and loads only when exactly one matches; an empty directory
\* fails with the missing-file error for "logic".
ClaimC8_LoaderErrors ==
    /\ pc # "logic" =>
         /\ Count(LogicSuffix) = 0 => (pc = "raised" /\ err = MissingFile("logic"))
         /\ Count(LogicSuffix) > 1 => (pc = "raised" /\ err = AmbiguousFile)
         /\ Assigned("logic_dict") <=> Count(LogicSuffix) = 1
    /\ (Assigned("logic_dict") /\ pc # "activity") =>
         /\ Count(ActivitySuffix) = 0 =>
              (pc = "raised" /\ err = MissingFile("activity"))
         /\ Count(ActivitySuffix) > 1 => (pc = "raised" /\ err = AmbiguousFile)
         /\ Assigned("activity_dict") <=> Count(ActivitySuffix) = 1
    /\ (dir.files = {} /\ pc # "logic") =>
         (pc = "raised" /\ err = MissingFile("logic"))
    /\ MissingFile("logic") # AmbiguousFile

WitnessC8_AmbiguousActivity ==
    /\ RaisedIn("activity_dict", {"logic_dict"})
    /\ Count(ActivitySuffix) = 2
    /\ err = AmbiguousFile

\* C10: with no "*.log" file the extractor fails with the missing-file
\* error, which is not the ambiguous-file error of several log files.
ClaimC10_NoLogIsMissingFile ==
    (Assigned("repressor_scores") /\ pc # "log" /\ Count(LogSuffix) = 0) =>
        /\ pc = "raised"
        /\ err.msg = "Unable to find"
        /\ err # AmbiguousFile

(***************************************************************************)
(* _fix_input_json.  The text is a sequence of characters over "[", "]",   *)
(* ",", a scalar character "x" and the tab.  yaml.load is the YAML grammar *)
(* on these characters: the empty text is null; a text that begins with a  *)
(* scalar character is one plain scalar (outside a flow collection a plain *)
(* scalar runs through "[", "]" and ","); a text that begins with "[" is a *)
(* flow sequence, whose entries are plain scalars of scalar characters or  *)
(* flow sequences, separated by "," with one "," allowed before the "]",   *)
(* and nothing may follow its last "]"; anything else is a parser error.   *)
(***************************************************************************)
Chars == {"[", "]", ",", "x", "\t"}

Null == [t |-> "null", s |-> <<>>, items |-> <<>>]
Str(s) == [t |-> "str", s |-> s, items |-> <<>>]
List(items) == [t |-> "seq", s |-> <<>>, items |-> items]

Parsed(v, n) == [ok |-> TRUE, val |-> v, next |-> n]
NoParse == [ok |-> FALSE, val |-> Null, next |-> 0]

\* the end of the run of scalar characters that starts at i
RECURSIVE ScalarEnd(_, _)
ScalarEnd(t, i) == IF i <= Len(t) /\ t[i] = "x" THEN ScalarEnd(t, i + 1) ELSE i

\* the entries of a flow sequence from position i on; st is "entry" after
\* "[" or ",", and "sep" after an entry
RECURSIVE FlowEntries(_, _, _, _)
FlowEntries(t, i, acc, st) ==
    IF i > Len(t) THEN NoParse
    ELSE IF t[i] = "]" THEN Parsed(List(acc), i + 1)
    ELSE IF st = "sep"
    THEN IF t[i] = "," THEN FlowEntries(t, i + 1, acc, "entry") ELSE NoParse
    ELSE IF t[i] = "," THEN NoParse
    ELSE IF t[i] = "x"
    THEN FlowEntries(t, ScalarEnd(t, i),
                     Append(acc, Str(SubSeq(t, i, ScalarEnd(t, i) - 1))), "sep")
    ELSE LET inner == FlowEntries(t, i + 1, <<>>, "entry")
         IN  IF inner.ok
             THEN FlowEntries(t, inner.next, Append(acc, inner.val), "sep")
             ELSE NoParse

\* yaml.load(dirty_data, Loader=yaml.FullLoader)
YamlLoad(t) ==
    IF t = <<>> THEN Ok(Null)
    ELSE IF t[1] = "x" THEN Ok(Str(t))
    ELSE IF t[1] = "["
    THEN LET r == FlowEntries(t, 2, <<>>, "entry")
         IN  IF r.ok /\ r.next = Len(t) + 1 THEN Ok(r.val) ELSE Raise(ParserError)
    ELSE Raise(ParserError)

\* dirty_data.replace("\t", "")
RECURSIVE StripTabs(_)
StripTabs(t) ==
    IF t = <<>> THEN <<>>
    ELSE IF Head(t) = "\t" THEN StripTabs(Tail(t))
    ELSE <<Head(t)>> \o StripTabs(Tail(t))

\* str.rfind: the last index (from 0) of the character, -1 when absent
RECURSIVE RFind(_, _, _)
RFind(t, c, i) ==
    IF i = 0 THEN -1
    ELSE IF t[i] = c THEN i - 1
    ELSE RFind(t, c, i - 1)

\* t[:idx]
SliceTo(t, idx) ==
    IF idx >= 0
    THEN SubSeq(t, 1, IF idx < Len(t) THEN idx ELSE Len(t))
    ELSE SubSeq(t, 1, IF Len(t) + idx > 0 THEN Len(t) + idx ELSE 0)

FixInputJson(input, final_trailing_comma) ==
    LET dirty_data == StripTabs(input)
        idx == RFind(dirty_data, ",", Len(dirty_data))
    IN  IF final_trailing_comma
        THEN YamlLoad(SliceTo(dirty_data, idx))
        ELSE YamlLoad(dirty_data)

ReadFile ==
    /\ out.state = "idle"
    /\ LET r == FixInputJson(text, flag)
       IN  out' = IF r.ok THEN [state |-> "returned", data |-> r.val]
                          ELSE [state |-> "raised", data |-> Null]
    /\ UNCHANGED <<text, flag, resultVars, queryVars>>

ResultIdle ==
    /\ dir = DefaultDir
    /\ pc = "idle"
    /\ self = NewSelf
    /\ err = NoError

InitReader ==
    /\ text \in SeqsUpTo(Chars, 0, MaxTextLen)
    /\ flag \in BOOLEAN
    /\ out = [state |-> "idle", data |-> Null]
    /\ ResultIdle
    /\ QueryIdle

NextReader == ReadFile

SpecReader == InitReader /\ [][NextReader]_vars

(***************************************************************************)
(* The claims about the reader.                                            *)
(***************************************************************************)
Stripped == StripTabs(text)
LastComma == CHOOSE i \in 1..Len(Stripped) :
                 Stripped[i] = "," /\ \A j \in (i + 1)..Len(Stripped) : Stripped[j] # ","
WithoutLastComma ==
    SubSeq(Stripped, 1, LastComma - 1) \o SubSeq(Stripped, LastComma + 1, Len(Stripped))
OutcomeOf(r) ==
    IF r.ok THEN [state |-> "returned", data |-> r.val]
            ELSE [state |-> "raised", data |-> Null]

\* C5: with final_trailing_comma the reader removes the last comma of the
\* tab-stripped text and nothing else: whenever the text without that one
\* comma is a document (as for a text ending in the last comma and the
\* closing delimiter), the reader returns that document.
ClaimC5_OnlyLastCommaRemoved ==
    ( /\ out.state # "idle"
      /\ flag
      /\ "," \in Range(Stripped)
      /\ YamlLoad(WithoutLastComma).ok )
    => out = OutcomeOf(YamlLoad(WithoutLastComma))

\* a comma that only closing delimiters follow
HasTrailingComma(t) ==
    \E i \in 1..Len(t) : t[i] = "," /\ \A j \in (i + 1)..Len(t) : t[j] = "]"

\* C6: with final_trailing_comma on a text without a trailing comma the
\* reader ends in a failure, never in a document that differs from the
\* document of the unmodified text.
ClaimC6_NoSilentCorruption ==
    (out.state = "returned" /\ flag /\ ~HasTrailingComma(Stripped)) =>
        (YamlLoad(Stripped).ok /\ YamlLoad(Stripped).val = out.data)

(***************************************************************************)
(* CelloQuery: the sensor document.  The input directory maps a file name  *)
(* to the document _fix_input_json reads from it (json.dump writes what    *)
(* yaml.load reads back).  A row is its collection and its name; a name is *)
(* the sequence of its pieces between "_".                                 *)
(***************************************************************************)
Signals == {"LacI", "TetR", "AraC"}
SensorFile == "Eco1C1G1T1.input.json"
CustomFile == "custom_input.input.json"

SensorSuffix == <<"sensor">>
ModelSuffix == <<"sensor", "model">>
StructureSuffix == <<"sensor", "structure">>

\* sig + suffix
WithSuffix(sig, suffix) == <<sig>> \o suffix

SuffixOf(collection) ==
    CASE collection = "input_sensors" -> SensorSuffix
      [] collection = "models" -> ModelSuffix
      [] collection = "structures" -> StructureSuffix

Collections == {"input_sensors", "models", "structures"}
SensorRows ==
    {[collection |-> c, name |-> WithSuffix(g, SuffixOf(c))] :
        c \in Collections, g \in Signals}

\* the rows of one signal: its sensor, its model, its structure
Triplet(g) ==
    << [collection |-> "input_sensors", name |-> WithSuffix(g, SensorSuffix)],
       [collection |-> "models", name |-> WithSuffix(g, ModelSuffix)],
       [collection |-> "structures", name |-> WithSuffix(g, StructureSuffix)] >>
TripletDocument == Triplet("LacI") \o Triplet("TetR") \o Triplet("AraC")

SensorDocuments == SeqsUpTo(SensorRows, 0, MaxRows) \cup {TripletDocument}

Returned(call, signals, value) ==
    [call |-> call, raised |-> FALSE, err |-> NoError,
     signals |-> signals, value |-> value, outcome |-> ""]
Raised(call, e) ==
    [call |-> call, raised |-> TRUE, err |-> e,
     signals |-> <<>>, value |-> 0, outcome |-> ""]

\* for row in data: if row["collection"] == "input_sensors":
\*     name_list.append(raw_name.split("_")[0])
RECURSIVE NameList(_, _)
NameList(data, name_list) ==
    IF data = <<>> THEN name_list
    ELSE NameList(Tail(data),
                  IF Head(data).collection = "input_sensors"
                  THEN Append(name_list, Head(data).name[1])
                  ELSE name_list)

\* open(f"{input_directory}/{input_sensors}") and the names of its rows
InputSignalsOf(files, name) ==
    IF name \in DOMAIN files
    THEN Ok(NameList(files[name], <<>>))
    ELSE Raise([type |-> "FileNotFoundError", msg |-> "", arg |-> name])

\* list.remove(row): the first element equal to row goes
RECURSIVE RemoveFirst(_, _)
RemoveFirst(data, row) ==
    IF data = <<>> THEN <<>>
    ELSE IF Head(data) = row THEN Tail(data)
    ELSE <<Head(data)>> \o RemoveFirst(Tail(data), row)

\* for row in in_data: ... in_data.remove(row).  The loop reads the list by
\* position: i is the number of elements it has read.
RECURSIVE PruneLoop(_, _, _, _)
PruneLoop(in_data, i, target_collection, query_list) ==
    IF i >= Len(in_data) THEN in_data
    ELSE LET row == in_data[i + 1]
         IN  IF row.collection = target_collection /\ row.name \notin query_list
             THEN PruneLoop(RemoveFirst(in_data, row), i + 1,
                            target_collection, query_list)
             ELSE PruneLoop(in_data, i + 1, target_collection, query_list)

PruneOtherSensors(suffix, target_collection, in_data, in_signals) ==
    PruneLoop(in_data, 0, target_collection,
              {WithSuffix(sig, suffix) : sig \in in_signals})

GetInputSignals ==
    /\ LET r == InputSignalsOf(fs, query.input_sensors)
       IN  ret' = IF r.ok THEN Returned("get_input_signals", r.val, 0)
                          ELSE Raised("get_input_signals", r.err)
    /\ UNCHANGED <<fs, query, outdir, asked, resultVars, readerVars>>

SetInputSignals(input_signals, output_filename, mutate) ==
    LET available == InputSignalsOf(fs, query.input_sensors)
    IN  IF ~available.ok
        THEN /\ ret' = Raised("set_input_signals", available.err)
             /\ UNCHANGED <<fs, query, outdir, asked, resultVars, readerVars>>
        ELSE IF \E signal \in input_signals : signal \notin Range(available.val)
        THEN /\ ret' = Raised("set_input_signals",
                              RuntimeError("Cannot set signal", "not present"))
             /\ UNCHANGED <<fs, query, outdir, asked, resultVars, readerVars>>
        ELSE LET d0 == fs[query.input_sensors]
                 d1 == PruneOtherSensors(SensorSuffix, "input_sensors", d0,
                                         input_signals)
                 d2 == PruneOtherSensors(ModelSuffix, "models", d1, input_signals)
                 d3 == PruneOtherSensors(StructureSuffix, "structures", d2,
                                         input_signals)
             IN  /\ fs' = [n \in DOMAIN fs \cup {output_filename} |->
                              IF n = output_filename THEN d3 ELSE fs[n]]
                 /\ query' = IF mutate
                             THEN [query EXCEPT !.input_sensors = output_filename]
                             ELSE query
                 /\ asked' = IF mutate \/ output_filename = query.input_sensors
                             THEN [valid |-> TRUE, signals |-> input_signals]
                             ELSE [valid |-> FALSE, signals |-> {}]
                 /\ ret' = Returned("set_input_signals", <<>>, 0)
                 /\ UNCHANGED <<outdir, resultVars, readerVars>>

AttrNames ==
    << "input_directory", "output_directory", "verilog_file", "compiler_options",
       "input_ucf", "input_sensors", "output_device", "logging" >>

NewQuery(logging, none) ==
    [input_sensors |-> SensorFile, logging |-> logging, none |-> none]

InitSignals ==
    /\ \E d \in SensorDocuments : fs = [n \in {SensorFile} |-> d]
    /\ query = NewQuery(TRUE, {})
    /\ outdir = [active |-> {}, archives |-> 0]
    /\ asked = [valid |-> FALSE, signals |-> {}]
    /\ ret = Returned("none", <<>>, 0)
    /\ ResultIdle
    /\ ReaderIdle

NextSignals ==
    \/ GetInputSignals
    \/ \E input_signals \in SUBSET Signals,
          output_filename \in {CustomFile, SensorFile},
          mutate \in BOOLEAN :
            SetInputSignals(input_signals, output_filename, mutate)

SpecSignals == InitSignals /\ [][NextSignals]_vars

\* C1: after set_input_signals(S), for S among the available signals, has
\* pruned the document and pointed the query at the written file,
\* get_input_signals returns exactly the signals of S.
ClaimC1_RoundTrip ==
    (ret.call = "get_input_signals" /\ ~ret.raised /\ asked.valid) =>
        Range(ret.signals) = asked.signals

(***************************************************************************)
(* CelloQuery.get_results.  The output directory is the set of its entries *)
(* that are not archives and the number of its "prior_cello_result_..."    *)
(* archives.  The container run is the external tool: it ends in success   *)
(* or in failure, and leaves its (full or partial) output files.           *)
(***************************************************************************)
OutputFiles == {"and_logic.csv", "and_activity.csv", "and_outputNetlist.json", "log.log"}

Written(outcome) == IF outcome = "success" THEN OutputFiles ELSE {"log.log"}

\* for query_attr in vars(self): the first attribute that is None
FirstNone(none) ==
    LET i == CHOOSE i \in 1..Len(AttrNames) :
                 /\ AttrNames[i] \in none
                 /\ \A j \in 1..(i - 1) : AttrNames[j] \notin none
    IN  AttrNames[i]

\* len(dir_contents) > 1, the archives filtered out
CheckForPriorResults(d) == Cardinality(d.active) > 1

\* os.mkdir(archive_dir), then every entry that is no archive moves into it
ArchivePriorResults(d) == [active |-> {}, archives |-> d.archives + 1]

\* the value get_results returns once the container has run: with logging
\* the loop over the output ends and control reaches "return 1"; without,
\* "return 0" follows process.communicate().  Popen and communicate raise
\* no CalledProcessError, whatever the exit status.
ReturnValue(logging, outcome) == IF logging THEN 1 ELSE 0

GetResults(outcome) ==
    /\ outdir.archives < MaxArchives
    /\ IF query.none # {}
       THEN /\ ret' = Raised("get_results",
                             RuntimeError("Unable to submit request, required attribute is not set",
                                          FirstNone(query.none)))
            /\ UNCHANGED outdir
       ELSE LET kept == IF CheckForPriorResults(outdir)
                        THEN ArchivePriorResults(outdir) ELSE outdir
            IN  /\ outdir' = [kept EXCEPT !.active = @ \cup Written(outcome)]
                /\ ret' = [Returned("get_results", <<>>,
                                    ReturnValue(query.logging, outcome))
                             EXCEPT !.outcome = outcome]
    /\ UNCHANGED <<fs, query, asked, resultVars, readerVars>>

InitRun ==
    /\ fs = [n \in {SensorFile} |-> TripletDocument]
    /\ \E logging \in BOOLEAN,
          none \in {{}} \cup {{AttrNames[i]} : i \in 1..Len(AttrNames)}
                        \cup {{"verilog_file", "output_device"}} :
            query = NewQuery(logging, none)
    /\ \E active \in SUBSET OutputFiles : outdir = [active |-> active, archives |-> 0]
    /\ asked = [valid |-> FALSE, signals |-> {}]
    /\ ret = Returned("none", <<>>, 0)
    /\ ResultIdle
    /\ ReaderIdle

NextRun == \E outcome \in {"success", "failure"} : GetResults(outcome)

SpecRun == InitRun /\ [][NextRun]_vars

\* C9: the value get_results returns tells success from failure of the run
\* and nothing else: a successful run returns the truthy success value and a
\* failed run another value, with logging and without.
ClaimC9_ReturnValueIsOutcome ==
    (ret.call = "get_results" /\ ~ret.raised) =>
        (ret.outcome = "success" <=> ret.value # 0)

(***************************************************************************)
(* The claims about the netlist name resolver and the row lengths.         *)
(***************************************************************************)
Nodes == dir.netlist.nodes
Matches(k) == {i \in 1..Len(Nodes) : Nodes[i].name = k}
FirstMatch(k) == CHOOSE i \in Matches(k) : \A j \in Matches(k) : i <= j
LastMatch(k) == CHOOSE i \in Matches(k) : \A j \in Matches(k) : i >= j

NetlistLoads ==
    /\ Count(NetlistSuffix) = 1
    /\ dir.netlist.kind = "doc"
    /\ dir.netlist.hasNodes

\* C11 as stated: each key of the logic table is mapped to the deviceName
\* of the first entry of "nodes", in netlist order, whose name is the key;
\* a key without such an entry is absent from part_names and is no error.
ClaimC11_FirstMatchWins ==
    /\ (Assigned("activity_dict") /\ pc # "names" /\ NetlistLoads)
         => Assigned("part_names")
    /\ Assigned("part_names") =>
         /\ KeySet(self.part_names)
              = {k \in KeySet(self.logic_dict) : Matches(k) # {}}
         /\ \A k \in KeySet(self.part_names) :
              DictGet(self.part_names, k) = Nodes[FirstMatch(k)].deviceName

\* C11 amended: each key of the logic table is mapped to the deviceName of
\* the last entry of "nodes", in netlist order, whose name is the key; a
\* key without such an entry is absent from part_names and is no error.
ClaimC11_LastMatchWins ==
    /\ (Assigned("activity_dict") /\ pc # "names" /\ NetlistLoads)
         => Assigned("part_names")
    /\ Assigned("part_names") =>
         /\ KeySet(self.part_names)
              = {k \in KeySet(self.logic_dict) : Matches(k) # {}}
         /\ \A k \in KeySet(self.part_names) :
              DictGet(self.part_names, k) = Nodes[LastMatch(k)].deviceName

WitnessC11_TwoEntriesOneName ==
    /\ Assigned("part_names")
    /\ Len(Nodes) = 2
    /\ Nodes[1].name = KG
    /\ Nodes[2].name = KG
    /\ Nodes[1].deviceName = "P1"
    /\ Nodes[2].deviceName = "P2"
    /\ KeySet(self.part_names) = {KG}
    /\ DictGet(self.part_names, KG) = "P2"
    /\ KI \in KeySet(self.logic_dict)

====
